---- MODULE Spec2Model ----
(***************************************************************************)
(* The fd provider subsystem of trinity (fds/fds.c): the provider          *)
(* registry, the --enable-fds/--disable-fds parameter processor, the       *)
(* initialisation scheduler open_fds and the fd selector get_random_fd     *)
(* with its lease in shared memory.                                        *)
(*                                                                         *)
(* Three specifications share the variables:                               *)
(*   SpecParam  one process_fds_param call on a freshly set up registry,   *)
(*              with the call and what it did recorded in `call`;          *)
(*   Spec       the life of the main process: process_fds_param calls,     *)
(*              then runs of open_fds, one list node per step;             *)
(*   SpecLease  workers calling get_random_fd on the shared lease, one     *)
(*              shared-memory access per step.                             *)
(***************************************************************************)
EXTENDS Integers, Sequences, FiniteSets, TLC

VARIABLES
    enabled,                        \* provider->enabled, in list order
    initialized,                    \* provider->initialized, in list order
    num_fd_providers_to_enable,     \* static counter, fds.c:29
    num_fd_providers_enabled,       \* static counter, fds.c:30
    num_fd_providers_initialized,   \* static counter, fds.c:31
    mpc,                            \* where the main process is
    do_rand,                        \* argument of the running __open_fds
    node,                           \* list position of the running __open_fds
    nparam,                         \* process_fds_param calls made so far
    runs,                           \* open_fds runs started so far
    call,                           \* the last process_fds_param call and its output
    open_ok,                        \* what each provider's open() answers
    opens,                          \* open() calls per provider, all runs
    runopens,                       \* open() calls per provider, this run
    entry,                          \* providers enabled and uninitialized at open_fds entry
    max_children,                   \* the configured number of children
    current_fd,                     \* shm->current_fd
    fd_lifetime,                    \* shm->fd_lifetime (unsigned int)
    nworkers,                       \* workers sharing the lease
    pc,                             \* where each worker is in get_random_fd
    fd,                             \* each worker's local fd of get_new_random_fd
    tmp,                            \* each worker's last value read from shm->fd_lifetime
    seen,                           \* each worker's last value read from shm->current_fd
    ret,                            \* each worker's last return value of get_random_fd
    info                            \* what worker 1's current get_random_fd call did

regvars == <<enabled, initialized, num_fd_providers_to_enable,
             num_fd_providers_enabled, num_fd_providers_initialized>>
mainvars == <<mpc, do_rand, node, nparam, runs, call, open_ok, opens, runopens, entry>>
leasevars == <<max_children, current_fd, fd_lifetime, nworkers, pc, fd, tmp, seen, ret, info>>
vars == <<regvars, mainvars, leasevars>>

----------------------------------------------------------------------------
(* Bounds of the model. *)

\* most comma-separated tokens in a parameter text
MaxTokens == 3
\* most process_fds_param calls of the main process
MaxParamCalls == 2
\* most open_fds runs of the main process
MaxOpenRuns == 2
\* largest max_children tried
MaxChildren == 6
\* most direct enable_fds_param / disable_fds_param calls
MaxSetCalls == 3

----------------------------------------------------------------------------
(* Characters and C strings.  A text is a sequence of one-character        *)
(* strings; memory holding a C string ends with Nul.                       *)

Nul == "NUL"
Comma == ","

\* What a read beyond the strdup()ed buffer can deliver, as far as the
\* scanning loop can tell: a comma or something else.
Garbage == {Comma, "?"}

\* The names of the registered providers, in registration order.  The second
\* name ends with the third and starts with the first.
ProviderNames == << <<"a">>, <<"a", "b">>, <<"b">> >>

num_fd_providers == Len(ProviderNames)

Providers == 1..num_fd_providers

\* A name no provider has.
UnknownName == <<"c">>

RECURSIVE Join(_)
\* The tokens joined by commas.
Join(ts) ==
    IF Len(ts) = 0 THEN <<>>
    ELSE IF Len(ts) = 1 THEN ts[1]
    ELSE ts[1] \o <<Comma>> \o Join(Tail(ts))

Tokens == {ProviderNames[p] : p \in Providers} \cup {UnknownName, <<>>}

TokenLists == UNION {[1..n -> Tokens] : n \in 1..MaxTokens}

\* The parameter texts tried.
Params == {Join(ts) : ts \in TokenLists}

----------------------------------------------------------------------------
(* The registry after setup_fd_providers: every record is zeroed by        *)
(* zmalloc (initialized == FALSE) and takes its enabled flag from the      *)
(* provider's declaration.                                                 *)

NoCall == [op |-> "none"]

RegistryInit ==
    /\ enabled \in [Providers -> BOOLEAN]
    /\ initialized = [p \in Providers |-> FALSE]
    /\ num_fd_providers_to_enable = 0
    /\ num_fd_providers_enabled = 0
    /\ num_fd_providers_initialized = 0

MainInit ==
    /\ mpc = "main"
    /\ do_rand = FALSE
    /\ node = 0
    /\ nparam = 0
    /\ runs = 0
    /\ call = NoCall
    /\ open_ok = <<>>
    /\ opens = [p \in Providers |-> 0]
    /\ runopens = [p \in Providers |-> 0]
    /\ entry = {}

\* No worker exists: the lease is as the zeroed shared memory has it.
LeaseQuiet ==
    /\ max_children = 1
    /\ current_fd = 0
    /\ fd_lifetime = 0
    /\ nworkers = 0
    /\ pc = <<>>
    /\ fd = <<>>
    /\ tmp = <<>>
    /\ seen = <<>>
    /\ ret = <<>>
    /\ info = <<>>

----------------------------------------------------------------------------
(* process_fds_param.  The state of one call is a record: the strdup()ed   *)
(* buffer mem (byte k is mem[k+1]), the offset off of str in it, the       *)
(* registry fields the call writes, what it printed, whether it called     *)
(* exit(), and whether it read or wrote a byte beyond the buffer.          *)

strdup(param) == param \o <<Nul>>

RECURSIVE CStr(_, _)
\* The C string that starts at byte off of mem: the bytes before the first Nul.
CStr(mem, off) ==
    IF off >= Len(mem) \/ mem[off + 1] = Nul THEN <<>>
    ELSE <<mem[off + 1]>> \o CStr(mem, off + 1)

strcmp(a, b) == IF a = b THEN 0 ELSE 1

\* The first list node whose name compares equal to str, 0 when there is none.
FindProvider(str) ==
    LET hits == {p \in Providers : strcmp(ProviderNames[p], str) = 0}
    IN IF hits = {} THEN 0 ELSE CHOOSE p \in hits : \A q \in hits : p <= q

enable_fds_param(st, str) ==
    LET p == FindProvider(str)
    IN IF p # 0
       THEN [st EXCEPT !.enabled[p] = TRUE,
                       !.to_enable = @ + 1,
                       !.out = Append(@, <<"Enabled", str>>)]
       ELSE [st EXCEPT !.exited = TRUE,
                       !.out = Append(@, <<"Unknown", str>>)]

\* disable_fds_param with the assignment of enable_fds_param pasted in.
disable_fds_param_Pasted(st, str) ==
    LET p == FindProvider(str)
    IN IF p # 0
       THEN [st EXCEPT !.enabled[p] = TRUE,
                       !.out = Append(@, <<"Disabled", str>>)]
       ELSE [st EXCEPT !.exited = TRUE,
                       !.out = Append(@, <<"Unknown", str>>)]

disable_fds_param(st, str) ==
    LET p == FindProvider(str)
    IN IF p # 0
       THEN [st EXCEPT !.enabled[p] = FALSE,
                       !.out = Append(@, <<"Disabled", str>>)]
       ELSE [st EXCEPT !.exited = TRUE,
                       !.out = Append(@, <<"Unknown", str>>)]

\* if (enable == TRUE) enable_fds_param(str); else disable_fds_param(str);
ApplyParam(st, enable) ==
    IF enable THEN enable_fds_param(st, CStr(st.mem, st.off))
    ELSE disable_fds_param(st, CStr(st.mem, st.off))

\* The byte the loop reads at index i: str[i], with str == str_orig + off.
ScanIndex(st, i) == st.off + i

\* The body of the for loop at index i, c being the byte read as str[i].
ScanStep(st, i, c, enable) ==
    IF c = Comma
    THEN LET idx == ScanIndex(st, i)
             w == IF idx < Len(st.mem)
                  THEN [st EXCEPT !.mem[idx + 1] = Nul]
                  ELSE [st EXCEPT !.oob_write = TRUE]
             a == ApplyParam(w, enable)
         IN IF a.exited THEN a ELSE [a EXCEPT !.off = i + 1]
    ELSE st

RECURSIVE ScanLoop(_, _, _, _)
\* for (i = 0; i < len; i++): every state the loop can end in.  A read at
\* or beyond byte len + 1 is outside the buffer and delivers any byte.
ScanLoop(st, i, len, enable) ==
    IF st.exited \/ i >= len THEN {st}
    ELSE LET idx == ScanIndex(st, i)
         IN IF idx < Len(st.mem)
            THEN ScanLoop(ScanStep(st, i, st.mem[idx + 1], enable), i + 1, len, enable)
            ELSE UNION {ScanLoop(ScanStep([st EXCEPT !.oob_read = TRUE], i, c, enable),
                                 i + 1, len, enable) : c \in Garbage}

\* if (str < str_orig + len) ... : the text after the last comma found.
ScanRest(st, len, enable) ==
    IF ~st.exited /\ st.off < len THEN ApplyParam(st, enable) ELSE st

\* The pass that marks everything disabled when enable == TRUE.
MarkDisabled(en, enable) ==
    IF enable THEN [p \in Providers |-> FALSE] ELSE en

\* Every outcome of process_fds_param(param, enable) on the registry (en, toen).
process_fds_param(en, toen, param, enable) ==
    LET len == Len(param)
        st0 == [mem |-> strdup(param), off |-> 0,
                enabled |-> MarkDisabled(en, enable), to_enable |-> toen,
                out |-> <<>>, exited |-> FALSE,
                oob_read |-> FALSE, oob_write |-> FALSE]
    IN {ScanRest(s, len, enable) : s \in ScanLoop(st0, 0, len, enable)}

\* process_fds_param(param, enable) in the main process; log says whether the
\* call is recorded in `call`.
DoParam(param, enable, log) ==
    /\ mpc = "main"
    /\ \E o \in process_fds_param(enabled, num_fd_providers_to_enable, param, enable) :
          /\ enabled' = o.enabled
          /\ num_fd_providers_to_enable' = o.to_enable
          /\ mpc' = IF o.exited THEN "exited" ELSE "main"
          /\ call' = IF log
                     THEN [op |-> "process_fds_param", param |-> param, enable |-> enable,
                           pre |-> enabled, pre_to_enable |-> num_fd_providers_to_enable,
                           out |-> o.out, oob_read |-> o.oob_read,
                           oob_write |-> o.oob_write]
                     ELSE NoCall
    /\ nparam' = nparam + 1
    /\ UNCHANGED <<initialized, num_fd_providers_enabled, num_fd_providers_initialized>>
    /\ UNCHANGED <<do_rand, node, runs, open_ok, opens, runopens, entry>>
    /\ UNCHANGED leasevars

\* The one call of SpecParam.
ParamCallLogged(param, enable) ==
    /\ nparam = 0
    /\ DoParam(param, enable, TRUE)

InitParam == RegistryInit /\ MainInit /\ LeaseQuiet

NextParam == \E param \in Params, enable \in BOOLEAN : ParamCallLogged(param, enable)

SpecParam == InitParam /\ [][NextParam]_vars

----------------------------------------------------------------------------
(* enable_fds_param and disable_fds_param on their own: each call is given *)
(* one name as a C string and is recorded in `call`.                       *)

\* The names the two functions are called with.
SetNames == {ProviderNames[p] : p \in Providers} \cup {UnknownName}

\* enable_fds_param(name) when enable is TRUE, disable_fds_param(name) otherwise.
SetEnabledCall(name, enable) ==
    /\ mpc = "main"
    /\ nparam < MaxSetCalls
    /\ LET st == [mem |-> strdup(name), off |-> 0,
                  enabled |-> enabled, to_enable |-> num_fd_providers_to_enable,
                  out |-> <<>>, exited |-> FALSE,
                  oob_read |-> FALSE, oob_write |-> FALSE]
           o == ApplyParam(st, enable)
       IN /\ enabled' = o.enabled
          /\ num_fd_providers_to_enable' = o.to_enable
          /\ mpc' = IF o.exited THEN "exited" ELSE "main"
    /\ call' = [op |-> "set_enabled", name |-> name, enable |-> enable,
                pre |-> enabled, pre_to_enable |-> num_fd_providers_to_enable]
    /\ nparam' = nparam + 1
    /\ UNCHANGED <<initialized, num_fd_providers_enabled, num_fd_providers_initialized>>
    /\ UNCHANGED <<do_rand, node, runs, open_ok, opens, runopens, entry>>
    /\ UNCHANGED leasevars

NextSet == \E name \in SetNames, enable \in BOOLEAN : SetEnabledCall(name, enable)

SpecSet == InitParam /\ [][NextSet]_vars

----------------------------------------------------------------------------
(* open_fds and __open_fds.  The parameters are processed before the       *)
(* providers are opened; open_fds may be run again.                        *)

\* A --enable-fds or --disable-fds parameter, processed before initialisation.
ParamCall(param, enable) ==
    /\ runs = 0
    /\ nparam < MaxParamCalls
    /\ DoParam(param, enable, FALSE)

\* open_fds is called.  What the providers' open() will answer is fixed by the
\* environment when the first run starts.
open_fds_enter ==
    /\ mpc = "main"
    /\ runs < MaxOpenRuns
    /\ mpc' = "while"
    /\ runs' = runs + 1
    /\ open_ok' \in IF runs = 0 THEN [Providers -> BOOLEAN] ELSE {open_ok}
    /\ entry' = {p \in Providers : enabled[p] /\ ~initialized[p]}
    /\ runopens' = [p \in Providers |-> 0]
    /\ call' = NoCall
    /\ UNCHANGED <<do_rand, node, nparam, opens>>
    /\ UNCHANGED regvars
    /\ UNCHANGED leasevars

\* HalfOpened with <= for <.
HalfOpened_OffByOne ==
    ~(num_fd_providers_initialized <= (num_fd_providers_to_enable \div 2))

\* while (num_fd_providers_initialized < (num_fd_providers_to_enable / 2))
HalfOpened == ~(num_fd_providers_initialized < (num_fd_providers_to_enable \div 2))

\* The loop test of open_fds, and the call of __open_fds it leads to.
open_fds_while ==
    /\ mpc = "while"
    /\ mpc' = "pass"
    /\ do_rand' = ~HalfOpened
    /\ node' = 1
    /\ UNCHANGED <<nparam, runs, call, open_ok, opens, runopens, entry>>
    /\ UNCHANGED regvars
    /\ UNCHANGED leasevars

\* OpenProvider without the test of open()'s result.
OpenProvider_AlwaysInitialized(p) ==
    /\ enabled' = [enabled EXCEPT ![p] = open_ok[p]]
    /\ initialized' = [initialized EXCEPT ![p] = TRUE]
    /\ num_fd_providers_initialized' = num_fd_providers_initialized + 1
    /\ num_fd_providers_enabled' = num_fd_providers_enabled + 1
    /\ opens' = [opens EXCEPT ![p] = @ + 1]
    /\ runopens' = [runopens EXCEPT ![p] = @ + 1]

\* OpenProvider without the increment of num_fd_providers_enabled.
OpenProvider_OneCounter(p) ==
    /\ enabled' = [enabled EXCEPT ![p] = open_ok[p]]
    /\ IF open_ok[p]
       THEN /\ initialized' = [initialized EXCEPT ![p] = TRUE]
            /\ num_fd_providers_initialized' = num_fd_providers_initialized + 1
            /\ UNCHANGED num_fd_providers_enabled
       ELSE UNCHANGED <<initialized, num_fd_providers_initialized,
                        num_fd_providers_enabled>>
    /\ opens' = [opens EXCEPT ![p] = @ + 1]
    /\ runopens' = [runopens EXCEPT ![p] = @ + 1]

\* OpenProvider with the two counters incremented outside the if.
OpenProvider_CountsFailed(p) ==
    /\ enabled' = [enabled EXCEPT ![p] = open_ok[p]]
    /\ initialized' = [initialized EXCEPT ![p] = open_ok[p]]
    /\ num_fd_providers_initialized' = num_fd_providers_initialized + 1
    /\ num_fd_providers_enabled' = num_fd_providers_enabled + 1
    /\ opens' = [opens EXCEPT ![p] = @ + 1]
    /\ runopens' = [runopens EXCEPT ![p] = @ + 1]

\* provider->enabled = provider->open(); and the bookkeeping that follows.
OpenProvider(p) ==
    /\ enabled' = [enabled EXCEPT ![p] = open_ok[p]]
    /\ IF open_ok[p]
       THEN /\ initialized' = [initialized EXCEPT ![p] = TRUE]
            /\ num_fd_providers_initialized' = num_fd_providers_initialized + 1
            /\ num_fd_providers_enabled' = num_fd_providers_enabled + 1
       ELSE UNCHANGED <<initialized, num_fd_providers_initialized,
                        num_fd_providers_enabled>>
    /\ opens' = [opens EXCEPT ![p] = @ + 1]
    /\ runopens' = [runopens EXCEPT ![p] = @ + 1]

\* SkipProvider without the "already done" test.
SkipProvider_NoDoneTest(p, coin) ==
    \/ enabled[p] = FALSE
    \/ (do_rand = TRUE /\ coin)

\* The tests of the loop body that `continue`, coin being RAND_BOOL().
SkipProvider(p, coin) ==
    \/ enabled[p] = FALSE
    \/ initialized[p] = TRUE
    \/ (do_rand = TRUE /\ coin)

\* One iteration of list_for_each in __open_fds, at list node `node`.
open_fds_node ==
    /\ mpc = "pass"
    /\ node <= num_fd_providers
    /\ \E coin \in BOOLEAN :
          \/ /\ SkipProvider(node, coin)
             /\ UNCHANGED <<enabled, initialized, num_fd_providers_initialized,
                            num_fd_providers_enabled, opens, runopens>>
          \/ /\ ~SkipProvider(node, coin)
             /\ OpenProvider(node)
    /\ node' = node + 1
    /\ UNCHANGED <<num_fd_providers_to_enable, mpc, do_rand, nparam, runs, call,
                   open_ok, entry>>
    /\ UNCHANGED leasevars

\* __open_fds returns: to the loop test after a random pass, and out of
\* open_fds after the pass over the leftovers.
open_fds_pass_end ==
    /\ mpc = "pass"
    /\ node > num_fd_providers
    /\ mpc' = IF do_rand THEN "while" ELSE "main"
    /\ UNCHANGED <<do_rand, node, nparam, runs, call, open_ok, opens, runopens, entry>>
    /\ UNCHANGED regvars
    /\ UNCHANGED leasevars

Init == RegistryInit /\ MainInit /\ LeaseQuiet

Next ==
    \/ \E param \in Params, enable \in BOOLEAN : ParamCall(param, enable)
    \/ open_fds_enter
    \/ open_fds_while
    \/ open_fds_node
    \/ open_fds_pass_end

Spec == Init /\ [][Next]_vars

\* __open_fds calls provider p's open().
OpensProvider(p) ==
    /\ open_fds_node
    /\ node = p
    /\ opens'[p] = opens[p] + 1

\* open_fds, once called, keeps running, and RAND_BOOL() is a fair coin: a
\* provider that the random passes reach again and again is not skipped
\* every time.
FairOpen ==
    /\ WF_vars(open_fds_while \/ open_fds_node \/ open_fds_pass_end)
    /\ \A p \in Providers : SF_vars(OpensProvider(p))

SpecFair == Init /\ [][Next]_vars /\ FairOpen

----------------------------------------------------------------------------
(* get_new_random_fd and get_random_fd.  Each worker runs get_random_fd    *)
(* on its own copy of the registry and on the one lease in shared memory;  *)
(* every read and every write of shm->current_fd and shm->fd_lifetime is   *)
(* a step of its own.                                                      *)

Workers == 1..nworkers

\* What provider p's get() can return: a failure, descriptor 0, or a
\* descriptor only p hands out.
GetVals(p) == {-1, 0, 2 + p}

\* RAND_RANGE(min, max): any value from min to max, both included.
RAND_RANGE(min, max) == min..max

\* LifetimeRange with an upper end one too far.
LifetimeRange_PastMax ==
    IF max_children > 5 THEN RAND_RANGE(5, max_children + 1)
    ELSE RAND_RANGE(max_children, 5 + 1)

\* The values the regen branch can store in shm->fd_lifetime.
LifetimeRange ==
    IF max_children > 5 THEN RAND_RANGE(5, max_children)
    ELSE RAND_RANGE(max_children, 5)

\* shm->fd_lifetime is an unsigned int.  The model holds its 32-bit pattern as
\* a two's complement number: -1 stands for 2^32 - 1, the value 0 - 1 wraps to.
UIntDec(x) == IF x = -2147483647 - 1 THEN 2147483647 ELSE x - 1

\* Unsigned x <= y, for y below 2^31.
UIntLeq(x, y) == 0 <= x /\ x <= y

\* The largest lifetime the regen branch can store.
LifetimeMax == IF max_children > 5 THEN max_children ELSE 5

\* race and stores follow the decrements of two workers: race is the value
\* both have read from shm->fd_lifetime before either wrote it back (0 when
\* there is no such pair of reads), stores the writes made since.
NoInfo == [fd0 |-> 0, life0 |-> 0, clean |-> TRUE, regens |-> 0,
           draws |-> 0, gets |-> 0, prov |-> 0, race |-> 0, stores |-> 0]

\* Counting up to "two or more".
Bump(n) == IF n < 2 THEN n + 1 ELSE 2

\* The worker whose calls `info` follows; the workers run the same code.
Observed == 1

\* Worker w writes the lease: if worker 1 is in a call and w is another
\* worker, that call is no longer undisturbed.
Disturb(w) ==
    IF w # Observed /\ pc[Observed] # "idle"
    THEN [info EXCEPT !.clean = FALSE, !.fd0 = 0, !.life0 = 0]
    ELSE info

\* `info` with the fields of worker 1's record changed as upd says, and
\* unchanged for another worker.
Note(w, upd) == IF w = Observed THEN upd ELSE info

\* `info` of i with no pair of reads followed.
NoRace(i) == [i EXCEPT !.race = 0, !.stores = 0]

\* Worker w has read v from shm->fd_lifetime for its decrement while another
\* worker holds the same value, read for its own decrement, and the lease
\* still has it: both will write v - 1.
SameRead(w, v) ==
    /\ v >= 2
    /\ fd_lifetime = v
    /\ \E u \in Workers \ {w} : pc[u] = "dec_store" /\ tmp[u] = v

\* The registry a worker sees is the one open_fds left: any providers
\* enabled, any of those initialized, the two counters counting the
\* initialized ones.
LeaseRegistry ==
    /\ enabled \in [Providers -> BOOLEAN]
    /\ initialized \in [Providers -> BOOLEAN]
    /\ \A p \in Providers : initialized[p] => enabled[p]
    /\ num_fd_providers_to_enable = 0
    /\ num_fd_providers_initialized = Cardinality({p \in Providers : initialized[p]})
    /\ num_fd_providers_enabled = num_fd_providers_initialized

InitLease ==
    /\ LeaseRegistry
    /\ MainInit
    /\ max_children \in 1..MaxChildren
    /\ current_fd = 0
    /\ fd_lifetime = 0
    /\ nworkers \in {1, 2}
    /\ pc = [w \in Workers |-> "idle"]
    /\ fd = [w \in Workers |-> -1]
    /\ tmp = [w \in Workers |-> 0]
    /\ seen = [w \in Workers |-> 0]
    /\ ret = [w \in Workers |-> <<>>]
    /\ info = NoInfo

\* Worker w calls get_random_fd.
get_random_fd_call(w) ==
    /\ pc[w] = "idle"
    /\ pc' = [pc EXCEPT ![w] = "regen"]
    /\ info' = IF w = Observed
               THEN [NoInfo EXCEPT !.fd0 = current_fd, !.life0 = fd_lifetime]
               ELSE NoRace(info)
    /\ ret' = [ret EXCEPT ![w] = <<>>]
    /\ UNCHANGED <<max_children, current_fd, fd_lifetime, nworkers, fd, tmp, seen>>

\* regen_test that resamples one call early.
regen_test_OneEarly(w) ==
    /\ pc[w] = "regen"
    /\ tmp' = [tmp EXCEPT ![w] = fd_lifetime]
    /\ pc' = [pc EXCEPT ![w] = IF fd_lifetime \in {0, 1} THEN "new" ELSE "dec"]
    /\ UNCHANGED <<max_children, current_fd, fd_lifetime, nworkers, fd, seen, ret, info>>

\* regen: if (shm->fd_lifetime == 0)
regen_test(w) ==
    /\ pc[w] = "regen"
    /\ tmp' = [tmp EXCEPT ![w] = fd_lifetime]
    /\ pc' = [pc EXCEPT ![w] = IF fd_lifetime = 0 THEN "new" ELSE "dec"]
    /\ UNCHANGED <<max_children, current_fd, fd_lifetime, nworkers, fd, seen, ret, info>>

\* get_new_random_fd without its two short-cuts.
NothingToSelect_Never == FALSE

\* The two short-cuts of get_new_random_fd.
NothingToSelect == num_fd_providers_enabled = 0 \/ num_fd_providers_initialized = 0

\* get_new_random_fd is entered: int fd = -1 and the two short-cuts.
get_new_random_fd_enter(w) ==
    /\ pc[w] = "new"
    /\ fd' = [fd EXCEPT ![w] = -1]
    /\ pc' = [pc EXCEPT ![w] = IF NothingToSelect THEN "store_fd" ELSE "draw"]
    /\ info' = Note(w, [info EXCEPT !.regens = Bump(@), !.draws = 0,
                                    !.gets = 0, !.prov = 0])
    /\ UNCHANGED <<max_children, current_fd, fd_lifetime, nworkers, tmp, seen, ret>>

\* RetryProvider without the "disabled" test.
RetryProvider_InitializedOnly(p) == initialized[p] = FALSE

\* RetryProvider without the "hasn't been run yet" test.
RetryProvider_EnabledOnly(p) == enabled[p] = FALSE

\* The provider at ordinal i is passed over: goto retry.
RetryProvider(p) ==
    \/ enabled[p] = FALSE
    \/ initialized[p] = FALSE

\* get_new_random_fd_draw leaving the loop after the first get(), whatever
\* it returned.
get_new_random_fd_draw_Once(w) ==
    /\ pc[w] = "draw"
    /\ \E i \in 0..(num_fd_providers - 1) :
          LET p == i + 1
          IN \/ /\ RetryProvider(p)
                /\ info' = Note(w, [info EXCEPT !.draws = Bump(@)])
                /\ UNCHANGED <<fd, pc>>
             \/ /\ ~RetryProvider(p)
                /\ \E v \in GetVals(p) :
                      /\ fd' = [fd EXCEPT ![w] = v]
                      /\ pc' = [pc EXCEPT ![w] = "store_fd"]
                /\ info' = Note(w, [info EXCEPT !.draws = Bump(@), !.gets = Bump(@),
                                                !.prov = p])
    /\ UNCHANGED <<max_children, current_fd, fd_lifetime, nworkers, tmp, seen, ret>>

\* One round of while (fd < 0): i = rnd() % num_fd_providers, the walk to
\* list node i, and that provider's get().
get_new_random_fd_draw(w) ==
    /\ pc[w] = "draw"
    /\ \E i \in 0..(num_fd_providers - 1) :
          LET p == i + 1
          IN \/ /\ RetryProvider(p)
                /\ info' = Note(w, [info EXCEPT !.draws = Bump(@)])
                /\ UNCHANGED <<fd, pc>>
             \/ /\ ~RetryProvider(p)
                /\ \E v \in GetVals(p) :
                      /\ fd' = [fd EXCEPT ![w] = v]
                      /\ pc' = [pc EXCEPT ![w] = IF v < 0 THEN "draw" ELSE "store_fd"]
                /\ info' = Note(w, [info EXCEPT !.draws = Bump(@), !.gets = Bump(@),
                                                !.prov = p])
    /\ UNCHANGED <<max_children, current_fd, fd_lifetime, nworkers, tmp, seen, ret>>

\* shm->current_fd = get_new_random_fd();
store_fd(w) ==
    /\ pc[w] = "store_fd"
    /\ current_fd' = fd[w]
    /\ fd' = [fd EXCEPT ![w] = -1]
    /\ pc' = [pc EXCEPT ![w] = "store_life"]
    /\ info' = IF w = Observed
               THEN [info EXCEPT !.draws = 0, !.gets = 0, !.prov = 0]
               ELSE Disturb(w)
    /\ UNCHANGED <<max_children, fd_lifetime, nworkers, tmp, seen, ret>>

\* shm->fd_lifetime = RAND_RANGE(...);
store_life(w) ==
    /\ pc[w] = "store_life"
    /\ fd_lifetime' \in LifetimeRange
    /\ pc' = [pc EXCEPT ![w] = "check"]
    /\ info' = Disturb(w)
    /\ UNCHANGED <<max_children, current_fd, nworkers, fd, tmp, seen, ret>>

\* shm->fd_lifetime--: the value decremented is the one the test read or one
\* read again, as the compiler chose.
dec_load(w) ==
    /\ pc[w] = "dec"
    /\ \E v \in {tmp[w], fd_lifetime} :
          /\ tmp' = [tmp EXCEPT ![w] = v]
          /\ info' = IF SameRead(w, v) THEN [info EXCEPT !.race = v, !.stores = 0]
                     ELSE info
    /\ pc' = [pc EXCEPT ![w] = "dec_store"]
    /\ UNCHANGED <<max_children, current_fd, fd_lifetime, nworkers, fd, seen, ret>>

\* dec_store as an atomic decrement of what the lease holds.
dec_store_Atomic(w) ==
    /\ pc[w] = "dec_store"
    /\ UIntLeq(fd_lifetime, LifetimeMax)
    /\ fd_lifetime' = UIntDec(fd_lifetime)
    /\ tmp' = [tmp EXCEPT ![w] = 0]
    /\ pc' = [pc EXCEPT ![w] = "check"]
    /\ info' = [Disturb(w) EXCEPT !.stores = IF info.race # 0 THEN @ + 1 ELSE 0]
    /\ UNCHANGED <<max_children, current_fd, nworkers, fd, seen, ret>>

\* shm->fd_lifetime--: the write.  A value that has wrapped around is not
\* decremented further, which keeps the countdown from 2^32 - 1 out of the
\* state space.
dec_store(w) ==
    /\ pc[w] = "dec_store"
    /\ UIntLeq(tmp[w], LifetimeMax)
    /\ fd_lifetime' = UIntDec(tmp[w])
    /\ tmp' = [tmp EXCEPT ![w] = 0]
    /\ pc' = [pc EXCEPT ![w] = "check"]
    /\ info' = [Disturb(w) EXCEPT !.stores = IF info.race # 0 THEN @ + 1 ELSE 0]
    /\ UNCHANGED <<max_children, current_fd, nworkers, fd, seen, ret>>

\* check_zero without the test for descriptor 0.
check_zero_NoTest(w) ==
    /\ pc[w] = "check"
    /\ seen' = [seen EXCEPT ![w] = current_fd]
    /\ pc' = [pc EXCEPT ![w] = "return"]
    /\ UNCHANGED <<max_children, current_fd, fd_lifetime, nworkers, fd, tmp, ret, info>>

\* if (shm->current_fd == 0)
check_zero(w) ==
    /\ pc[w] = "check"
    /\ seen' = [seen EXCEPT ![w] = current_fd]
    /\ pc' = [pc EXCEPT ![w] = IF current_fd = 0 THEN "zero" ELSE "return"]
    /\ UNCHANGED <<max_children, current_fd, fd_lifetime, nworkers, fd, tmp, ret, info>>

\* shm->fd_lifetime = 0; goto regen;
force_regen(w) ==
    /\ pc[w] = "zero"
    /\ fd_lifetime' = 0
    /\ seen' = [seen EXCEPT ![w] = 0]
    /\ pc' = [pc EXCEPT ![w] = "regen"]
    /\ info' = NoRace(Disturb(w))
    /\ UNCHANGED <<max_children, current_fd, nworkers, fd, tmp, ret>>

\* return shm->current_fd: the value the test read or one read again, as the
\* compiler chose.
get_random_fd_return(w) ==
    /\ pc[w] = "return"
    /\ \E v \in {seen[w], current_fd} : ret' = [ret EXCEPT ![w] = <<v>>]
    /\ seen' = [seen EXCEPT ![w] = 0]
    /\ pc' = [pc EXCEPT ![w] = "idle"]
    /\ UNCHANGED <<max_children, current_fd, fd_lifetime, nworkers, fd, tmp, info>>

WorkerStep(w) ==
    \/ get_random_fd_call(w)
    \/ regen_test(w)
    \/ get_new_random_fd_enter(w)
    \/ get_new_random_fd_draw(w)
    \/ store_fd(w)
    \/ store_life(w)
    \/ dec_load(w)
    \/ dec_store(w)
    \/ check_zero(w)
    \/ force_regen(w)
    \/ get_random_fd_return(w)

NextLease ==
    /\ \E w \in Workers : WorkerStep(w)
    /\ UNCHANGED regvars
    /\ UNCHANGED mainvars

SpecLease == InitLease /\ [][NextLease]_vars

----------------------------------------------------------------------------------------------------------------------------------------
(* One process making its calls in any order: process_fds_param, open_fds  *)
(* and get_new_random_fd, one after another.  get_random_fd reaches get()  *)
(* only through get_new_random_fd, which reads nothing of the lease, so    *)
(* the lease is left out here.  The process is worker 1.                   *)

InitMix ==
    /\ RegistryInit
    /\ MainInit
    /\ max_children = 1
    /\ current_fd = 0
    /\ fd_lifetime = 0
    /\ nworkers = 1
    /\ pc = [w \in Workers |-> "idle"]
    /\ fd = [w \in Workers |-> -1]
    /\ tmp = [w \in Workers |-> 0]
    /\ seen = [w \in Workers |-> 0]
    /\ ret = [w \in Workers |-> <<>>]
    /\ info = NoInfo

\* The texts with at most one comma: what matters here is when a call comes,
\* and these enable or disable any one or two providers, or exit.
ShortParams == {t \in Params : Cardinality({k \in 1..Len(t) : t[k] = Comma}) <= 1}

\* process_fds_param is called, before or after open_fds.
MixParam(param, enable) ==
    /\ pc[Observed] = "idle"
    /\ nparam < MaxParamCalls
    /\ DoParam(param, enable, FALSE)

\* open_fds is called, or takes its next step.
MixOpen ==
    /\ pc[Observed] = "idle"
    /\ \/ open_fds_enter
       \/ open_fds_while
       \/ open_fds_node
       \/ open_fds_pass_end

\* get_new_random_fd is called by something other than get_random_fd.
get_new_random_fd_call(w) ==
    /\ pc[w] = "idle"
    /\ pc' = [pc EXCEPT ![w] = "new"]
    /\ ret' = [ret EXCEPT ![w] = <<>>]
    /\ info' = Note(w, NoInfo)
    /\ UNCHANGED <<max_children, current_fd, fd_lifetime, nworkers, fd, tmp, seen>>

\* return fd; to that caller.
get_new_random_fd_return(w) ==
    /\ pc[w] = "store_fd"
    /\ ret' = [ret EXCEPT ![w] = <<fd[w]>>]
    /\ fd' = [fd EXCEPT ![w] = -1]
    /\ pc' = [pc EXCEPT ![w] = "idle"]
    /\ info' = Note(w, NoInfo)
    /\ UNCHANGED <<max_children, current_fd, fd_lifetime, nworkers, tmp, seen>>

\* get_new_random_fd is called, or takes its next step.
MixSelect ==
    /\ mpc = "main"
    /\ \E w \in Workers :
          \/ get_new_random_fd_call(w)
          \/ get_new_random_fd_enter(w)
          \/ get_new_random_fd_draw(w)
          \/ get_new_random_fd_return(w)
    /\ UNCHANGED regvars
    /\ UNCHANGED mainvars

NextMix ==
    \/ \E param \in ShortParams, enable \in BOOLEAN : MixParam(param, enable)
    \/ MixOpen
    \/ MixSelect

SpecMix == InitMix /\ [][NextMix]_vars

----------------------------------------------------------------------------
(* The life of one process in its order: process_fds_param calls, then     *)
(* open_fds, then get_new_random_fd calls (and open_fds again).            *)

\* get_new_random_fd is called, or takes its next step, after open_fds has
\* returned.
LifeSelect ==
    /\ runs >= 1
    /\ MixSelect

NextLife ==
    \/ /\ pc[Observed] = "idle"
       /\ Next
    \/ LifeSelect

\* A step of a get_new_random_fd call that is under way.
SelectRuns ==
    /\ pc[Observed] # "idle"
    /\ LifeSelect

\* The draw gives the ordinal of provider p and p's get() returns a
\* descriptor.
GetSucceeds(p) ==
    /\ LifeSelect
    /\ pc[Observed] = "draw"
    /\ pc'[Observed] = "store_fd"
    /\ info'.prov = p

\* A call under way keeps running; rnd() draws every ordinal again and
\* again, and the get() of a provider that can be used does not fail forever.
FairSelect ==
    /\ WF_vars(SelectRuns)
    /\ \A p \in Providers : SF_vars(GetSucceeds(p))

SpecLife == InitMix /\ [][NextLife]_vars /\ FairSelect

----------------------------------------------------------------------------
(* What the parameter processor is specified to do, for stating the        *)
(* claims: the text split at every comma, a trailing empty token dropped.  *)

RECURSIVE Split(_)
Split(text) ==
    IF \E k \in 1..Len(text) : text[k] = Comma
    THEN LET k == CHOOSE i \in 1..Len(text) :
                     /\ text[i] = Comma
                     /\ \A j \in 1..(i - 1) : text[j] # Comma
         IN <<SubSeq(text, 1, k - 1)>> \o Split(SubSeq(text, k + 1, Len(text)))
    ELSE <<text>>

ParamTokens(text) ==
    LET ts == Split(text)
    IN IF ts[Len(ts)] = <<>> THEN SubSeq(ts, 1, Len(ts) - 1) ELSE ts

Registered(t) == \E p \in Providers : ProviderNames[p] = t

AllRegistered(ts) == \A i \in 1..Len(ts) : Registered(ts[i])

Named(p, ts) == \E i \in 1..Len(ts) : ts[i] = ProviderNames[p]

\* The tokens before the first one that names no provider.
KnownPrefix(ts) ==
    LET bad == {i \in 1..Len(ts) : ~Registered(ts[i])}
        k == CHOOSE i \in bad : \A j \in bad : i <= j
    IN SubSeq(ts, 1, k - 1)

Logged == call.op = "process_fds_param"

----------------------------------------------------------------------------
(* Claims about process_fds_param, under SpecParam. *)

\* C6: after process_fds_param(param, TRUE) has returned, every token of param
\* being a registered name, a provider is enabled exactly if a token names it.
C6_EnableExclusive ==
    (Logged /\ call.enable /\ mpc = "main" /\ AllRegistered(ParamTokens(call.param)))
        => \A p \in Providers : enabled[p] = Named(p, ParamTokens(call.param))

\* C7: after process_fds_param(param, FALSE) has returned, every token of param
\* being a registered name, every named provider is disabled, every other
\* provider has the enabled flag it had before, and the requested counter,
\* the initialized flags and the other counters are as before.
C7_DisableSubtractive ==
    (Logged /\ ~call.enable /\ mpc = "main" /\ AllRegistered(ParamTokens(call.param)))
        => /\ \A p \in Providers :
                 enabled[p] = IF Named(p, ParamTokens(call.param)) THEN FALSE
                              ELSE call.pre[p]
           /\ num_fd_providers_to_enable = call.pre_to_enable
           /\ initialized = [p \in Providers |-> FALSE]
           /\ num_fd_providers_enabled = 0
           /\ num_fd_providers_initialized = 0

\* C8: when param holds a token that names no registered provider, the process
\* has exited, and the registry is the one before the call changed by the
\* tokens before that one and by nothing else (in enable mode after the pass
\* that marks every provider disabled).
C8_UnknownTokenExit ==
    (Logged /\ ~AllRegistered(ParamTokens(call.param)))
        => LET known == KnownPrefix(ParamTokens(call.param))
           IN /\ mpc = "exited"
              /\ \A p \in Providers :
                    enabled[p] = IF call.enable THEN Named(p, known)
                                 ELSE (call.pre[p] /\ ~Named(p, known))
              /\ num_fd_providers_to_enable =
                    call.pre_to_enable + (IF call.enable THEN Len(known) ELSE 0)

\* C9: for a text of one or more non-empty registered names joined by commas
\* (a trailing comma allowed), the per-token operation is applied once to each
\* name, left to right, no byte outside the text's buffer is touched, and the
\* unknown-name exit is not taken.
C9_SplitAtEveryComma ==
    LET ts == ParamTokens(call.param)
    IN (Logged /\ Len(ts) >= 1 /\ AllRegistered(ts))
          => /\ call.out = [i \in 1..Len(ts) |->
                              <<IF call.enable THEN "Enabled" ELSE "Disabled", ts[i]>>]
             /\ ~call.oob_read
             /\ ~call.oob_write
             /\ mpc = "main"

----------------------------------------------------------------------------
(* Claims about open_fds, under Spec. *)

OpenFdsReturned == mpc = "main" /\ runs >= 1

\* A provider whose open() was called and failed.
OpenFailed(p) == opens[p] >= 1 /\ ~initialized[p]

\* C5: when open_fds has returned, num_fd_providers_initialized <=
\* num_fd_providers_enabled <= num_fd_providers, and every initialized
\* provider is enabled.
C5_CountersOrdered ==
    OpenFdsReturned
        => /\ num_fd_providers_initialized <= num_fd_providers_enabled
           /\ num_fd_providers_enabled <= num_fd_providers
           /\ \A p \in Providers : initialized[p] => enabled[p]

\* open_fds has returned after parameters were processed, with a provider
\* opened and another whose open() failed.
C5_Witness ==
    /\ OpenFdsReturned
    /\ nparam >= 1
    /\ \E p, q \in Providers : initialized[p] /\ OpenFailed(q)

\* C10: in a run of open_fds, open() is called at most once on a provider, never
\* on one that was disabled or initialized at entry, and exactly once, by the
\* time the run returns, on each one that was enabled and uninitialized at
\* entry; a provider whose open() failed is disabled and its open() is not
\* called again, in this run or the next.
C10_OpenOnce ==
    /\ \A p \in Providers : runopens[p] <= (IF p \in entry THEN 1 ELSE 0)
    /\ OpenFdsReturned => \A p \in entry : runopens[p] = 1
    /\ \A p \in Providers : OpenFailed(p) => (~enabled[p] /\ opens[p] = 1)
    /\ \A p \in Providers : opens[p] <= 1

\* The second run of open_fds has returned; in the first a provider's open()
\* failed and another's succeeded.
C10_Witness ==
    /\ mpc = "main"
    /\ runs = 2
    /\ \E p, q \in Providers : OpenFailed(p) /\ initialized[q] /\ opens[q] = 1

----------------------------------------------------------------------------
(* Claims about get_random_fd and get_new_random_fd, under SpecLease.      *)
(* A call of worker 1 is undisturbed when no other worker wrote the lease  *)
(* while it ran; a worker alone is never disturbed.                        *)

Returned == ret[Observed] # <<>>

\* C1: an undisturbed call of get_random_fd does not return 0, whatever the
\* lease was when it started.
C1_NeverReturnsZero ==
    (Returned /\ info.clean) => ret[Observed] # <<0>>

\* An undisturbed call has returned after it sampled descriptor 0 and
\* sampled again.
C1_Witness ==
    /\ Returned
    /\ info.clean
    /\ info.regens >= 2

\* C2 as stated: an undisturbed call that starts with fd_lifetime == k > 0
\* only decrements fd_lifetime and returns the current_fd it found; one that
\* starts with fd_lifetime == 0 resamples.
C2_StickyAnyLease ==
    /\ (pc[Observed] = "return" /\ info.clean /\ info.life0 > 0)
          => /\ info.regens = 0
             /\ current_fd = info.fd0
             /\ fd_lifetime = info.life0 - 1
    /\ (Returned /\ info.clean /\ info.life0 > 0)
          => (info.regens = 0 /\ ret[Observed] = <<info.fd0>>)
    /\ (Returned /\ info.clean /\ info.life0 = 0) => info.regens >= 1

\* C2, amended: the same for a call that starts with current_fd # 0.
C2_Sticky ==
    /\ (pc[Observed] = "return" /\ info.clean /\ info.life0 > 0 /\ info.fd0 # 0)
          => /\ info.regens = 0
             /\ current_fd = info.fd0
             /\ fd_lifetime = info.life0 - 1
    /\ (Returned /\ info.clean /\ info.life0 > 0 /\ info.fd0 # 0)
          => (info.regens = 0 /\ ret[Observed] = <<info.fd0>>)
    /\ (Returned /\ info.clean /\ info.life0 = 0) => info.regens >= 1

\* An undisturbed call that started with a lifetime of 2 or more has returned
\* the descriptor it found.
C2_Witness ==
    /\ Returned
    /\ info.clean
    /\ info.life0 >= 2
    /\ info.fd0 # 0
    /\ ret[Observed] = <<info.fd0>>
    /\ fd_lifetime = info.life0 - 1

\* C3: a lifetime stored by the regen branch lies in [5, max_children] when
\* max_children > 5 and in [max_children, 5] otherwise.
C3_LifetimeInRange ==
    [][\A w \in Workers :
          (pc[w] = "store_life" /\ pc'[w] = "check")
              => IF max_children > 5
                 THEN 5 <= fd_lifetime' /\ fd_lifetime' <= max_children
                 ELSE max_children <= fd_lifetime' /\ fd_lifetime' <= 5]_vars

\* A worker alone has just stored the largest lifetime, max_children above 5.
C3_Witness ==
    /\ nworkers = 1
    /\ pc[Observed] = "check"
    /\ info.regens >= 1
    /\ max_children > 5
    /\ fd_lifetime = max_children

\* C4: get_new_random_fd returns -1 without a draw or a get() when
\* num_fd_providers_enabled or num_fd_providers_initialized is 0; otherwise
\* it returns what the get() of an enabled and initialized provider returned.
C4_SentinelOrProvided ==
    pc[Observed] = "store_fd"
        => IF num_fd_providers_enabled = 0 \/ num_fd_providers_initialized = 0
           THEN fd[Observed] = -1 /\ info.draws = 0 /\ info.gets = 0
           ELSE /\ info.gets >= 1
                /\ info.prov \in Providers
                /\ enabled[info.prov]
                /\ initialized[info.prov]
                /\ fd[Observed] \in GetVals(info.prov)

\* get_new_random_fd returns a provider's own descriptor after an earlier round.
C4_Witness ==
    /\ pc[Observed] = "store_fd"
    /\ info.draws >= 2
    /\ info.prov \in Providers
    /\ fd[Observed] = 2 + info.prov

----------------------------------------------------------------------------
(* A claim about the two counters, under Spec. *)

\* C20: num_fd_providers_enabled equals num_fd_providers_initialized in every
\* reachable state, and when the first run of open_fds has returned both
\* equal the number of records with enabled == TRUE, which is the number of
\* records with initialized == TRUE.
C20_CountersAgree ==
    /\ num_fd_providers_enabled = num_fd_providers_initialized
    /\ (mpc = "main" /\ runs = 1)
          => /\ num_fd_providers_enabled = Cardinality({p \in Providers : enabled[p]})
             /\ Cardinality({p \in Providers : enabled[p]})
                   = Cardinality({p \in Providers : initialized[p]})

\* The first run of open_fds has returned after a process_fds_param call,
\* with two providers opened and the third's open() failed.
C20_Witness ==
    /\ mpc = "main"
    /\ runs = 1
    /\ nparam >= 1
    /\ num_fd_providers_enabled = 2
    /\ \E p \in Providers : OpenFailed(p)

----------------------------------------------------------------------------
(* Claims about the calls of get(), under SpecMix. *)

\* C11: whatever the order of the process_fds_param, open_fds and
\* get_new_random_fd calls, the provider whose get() a call has invoked is
\* enabled and initialized, and its open() was called and succeeded.
C11_GetOnlyInitialized ==
    \A p \in Providers :
        info.prov = p
            => /\ enabled[p]
               /\ initialized[p]
               /\ opens[p] >= 1
               /\ open_ok[p]

\* get() has been invoked while another provider, initialized by open_fds,
\* was disabled by a later process_fds_param, and a third was never opened.
C11_Witness ==
    \E p, q, r \in Providers :
        /\ info.prov = p
        /\ initialized[q] /\ ~enabled[q]
        /\ opens[r] = 0

----------------------------------------------------------------------------
(* More claims about get_random_fd and get_new_random_fd, under SpecLease. *)

\* C12: with num_fd_providers_enabled == 0 or num_fd_providers_initialized
\* == 0, a call of get_random_fd never enters the draw loop and never takes
\* the goto regen, it returns -1, and an undisturbed call that started with
\* fd_lifetime == 0 has called get_new_random_fd exactly once.
C12_ExhaustionByValue ==
    (num_fd_providers_enabled = 0 \/ num_fd_providers_initialized = 0)
        => /\ pc[Observed] \notin {"draw", "zero"}
           /\ Returned => (ret[Observed] = <<-1>> /\ info.regens <= 1)
           /\ (Returned /\ info.clean /\ info.life0 = 0) => info.regens = 1

\* With two workers and a provider that is enabled but was never
\* initialized, an undisturbed call that started with fd_lifetime == 0 has
\* returned -1.
C12_Witness ==
    /\ num_fd_providers_initialized = 0
    /\ nworkers = 2
    /\ \E p \in Providers : enabled[p]
    /\ Returned
    /\ info.clean
    /\ info.life0 = 0
    /\ info.regens = 1
    /\ ret[Observed] = <<-1>>

----------------------------------------------------------------------------
(* Claims about enable_fds_param and disable_fds_param, under SpecSet. *)

\* C13: after enable_fds_param(n) (v = TRUE) or disable_fds_param(n)
\* (v = FALSE) with n a registered name, the record named n has enabled == v
\* and every other record has the enabled flag it had before.
C13_SetThenFind ==
    (call.op = "set_enabled" /\ Registered(call.name))
        => /\ mpc = "main"
           /\ \A p \in Providers :
                 enabled[p] = IF ProviderNames[p] = call.name THEN call.enable
                              ELSE call.pre[p]

\* The name "b", a suffix of another name, has been disabled by a second or
\* later call, every record being enabled before it.
C13_Witness ==
    /\ call.op = "set_enabled"
    /\ nparam >= 2
    /\ call.name = <<"b">>
    /\ ~call.enable
    /\ call.pre = [p \in Providers |-> TRUE]
    /\ enabled = <<TRUE, TRUE, FALSE>>

----------------------------------------------------------------------------
(* Claims about workers sharing the lease, under SpecLease. *)

\* C14: with two or more workers calling get_random_fd on the shared lease,
\* every access to it a step of its own, no call of any worker returns 0.
C14_NoZeroConcurrently ==
    \A w \in Workers : ret[w] # <<0>>

\* C15: when two workers have both read the same value k >= 2 of fd_lifetime
\* for their decrements before either wrote it back, fd_lifetime is k - 1,
\* not k - 2, after both have written.
C15_LostDecrement ==
    (info.race >= 2 /\ info.stores = 2) => fd_lifetime = info.race - 1

\* Both workers have completed such calls through the decrement branch and
\* returned; fd_lifetime is one below the value both read.
C15_Witness ==
    /\ nworkers = 2
    /\ info.race >= 2
    /\ info.stores = 2
    /\ \A w \in Workers : pc[w] = "idle" /\ ret[w] # <<>>
    /\ fd_lifetime = info.race - 1

----------------------------------------------------------------------------
(* Claims about the termination of open_fds, under SpecFair. *)

\* The providers enabled when the running open_fds was entered whose open()
\* succeeds.
EnabledAtEntryOpenable ==
    {p \in Providers : (p \in entry \/ initialized[p]) /\ open_ok[p]}

InOpenFds == mpc \in {"while", "pass"}

\* C16: a run of open_fds in which at least num_fd_providers_to_enable / 2 of
\* the providers enabled at entry have an open() that succeeds returns, the
\* coin being fair; and with num_fd_providers_to_enable == 0 no random pass
\* is made.
C16_OpenFdsTerminates ==
    /\ [](num_fd_providers_to_enable = 0 => ~(mpc = "pass" /\ do_rand))
    /\ (InOpenFds /\ Cardinality(EnabledAtEntryOpenable)
                        >= num_fd_providers_to_enable \div 2)
          ~> (mpc = "main")

\* A random pass has just ended with the threshold reached, after a
\* provider's open() failed.
C16_Witness ==
    /\ mpc = "pass"
    /\ do_rand
    /\ node > num_fd_providers
    /\ num_fd_providers_to_enable >= 2
    /\ HalfOpened
    /\ \E p \in Providers : OpenFailed(p)

----------------------------------------------------------------------------
(* Claims about get_new_random_fd after open_fds, under SpecLife. *)

\* C17: after process_fds_param calls and a completed open_fds, when both
\* num_fd_providers_enabled and num_fd_providers_initialized are above 0 some
\* provider is enabled and initialized, and a get_new_random_fd call then
\* comes to its return, the draws being fair and that provider's get()
\* delivering a descriptor.
C17_SelectionReturns ==
    /\ []((OpenFdsReturned /\ num_fd_providers_enabled > 0
                           /\ num_fd_providers_initialized > 0)
            => \E p \in Providers : enabled[p] /\ initialized[p])
    /\ (pc[Observed] = "new" /\ num_fd_providers_enabled > 0
                             /\ num_fd_providers_initialized > 0)
          ~> (pc[Observed] = "store_fd")

\* After a process_fds_param call and an open_fds in which a provider's
\* open() failed, a get_new_random_fd call has a descriptor to return after
\* at least one discarded draw.
C17_Witness ==
    /\ nparam >= 1
    /\ \E q \in Providers : OpenFailed(q)
    /\ pc[Observed] = "store_fd"
    /\ info.draws >= 2
    /\ fd[Observed] >= 0

----------------------------------------------------------------------------
(* More claims about the workers' calls, under SpecLease. *)

\* C18 as stated: on the path that is not the sentinel's, get_new_random_fd
\* has invoked get() exactly once when it returns, and returns what that
\* get() returned.
C18_OneGetPerCall ==
    (pc[Observed] = "store_fd" /\ num_fd_providers_enabled > 0
                               /\ num_fd_providers_initialized > 0)
        => /\ info.gets = 1
           /\ info.prov \in Providers
           /\ fd[Observed] \in GetVals(info.prov)

\* C18, amended: on that path get_new_random_fd invokes get() once in a
\* round, draws again while the value is negative, and returns the first
\* value that is not negative (0 included), which is the one the last get()
\* returned.
C18_GetUntilNonNegative ==
    /\ pc[Observed] = "draw" => fd[Observed] < 0
    /\ (pc[Observed] = "store_fd" /\ num_fd_providers_enabled > 0
                                  /\ num_fd_providers_initialized > 0)
          => /\ info.gets >= 1
             /\ info.prov \in Providers
             /\ fd[Observed] \in GetVals(info.prov)
             /\ fd[Observed] >= 0

\* get_new_random_fd returns 0 from a second or later get().
C18_Witness ==
    /\ pc[Observed] = "store_fd"
    /\ info.gets >= 2
    /\ fd[Observed] = 0

\* C19: with any number of workers, the unsigned fd_lifetime is never above
\* max(5, max_children): no worker decrements a value of 0 and fd_lifetime
\* does not wrap around to 2^32 - 1.
C19_LifetimeBounded ==
    /\ UIntLeq(fd_lifetime, LifetimeMax)
    /\ \A w \in Workers : pc[w] = "dec_store" => tmp[w] # 0

====
